---- MODULE Spec2Model ----
(***************************************************************************)
(* A model of the asset refresh and history-retention pipeline of          *)
(* financial_data_aggregator: the TinyDB tables of src/src/utils/db_utils.py *)
(* and the services of src/src/services/asset_service.py.                  *)
(*                                                                         *)
(* Strings are sequences of one-character strings, so that the format      *)
(* check and the ordering of ISO timestamps are computed, not assumed.     *)
(* A TinyDB table is the sequence of its documents in insertion order; a   *)
(* document is [doc_id, value]: doc_id is the attribute TinyDB assigns at  *)
(* insertion, value is the stored dictionary (a record, whose DOMAIN is    *)
(* the set of its keys).                                                   *)
(***************************************************************************)
EXTENDS Integers, Sequences, FiniteSets, TLC

VARIABLES
    symbols_table,   \* db.table('symbols')
    history_table,   \* db.table('history')
    current_table,   \* db.table('current')
    clock,           \* the last reading of datetime.now(), in clock ticks
    last,            \* the last call made directly on the store and its result
    ing,             \* the frame of the ingest_assets_service call
    reg,             \* the frames of the concurrent registration calls
    hash_seed,       \* the seed of str hashes in this process (PYTHONHASHSEED)
    fan              \* the frame of the call that fans out with asyncio.gather

vars == <<symbols_table, history_table, current_table, clock, last, ing, reg, hash_seed, fan>>

(***************************************************************************)
(* Bounds of the model.                                                    *)
(***************************************************************************)
\* the clock stops advancing at MaxClock (later readings are equal)
MaxClock == 12
\* ticks of the clock in one second: the fraction of a timestamp is 0..TicksPerSecond-1
TicksPerSecond == 2
\* history entries of PreloadSymbol written by earlier refreshes
Preload == 9
\* store calls made on top of the preloaded history
MaxWrites == 2
\* largest keep_last passed to a direct trim_asset_history call
MaxKeep == 1
\* longest input of ingest_assets_service
MaxInput == 3
\* longest input of save_symbols
MaxRegInput == 2
\* greatest hash seed of a process
MaxSeed == 1
\* longest input of add_assets_service and update_assets_and_trim_history
MaxFan == 3
\* longest input of a save_symbols call made on its own
MaxSymInput == 3
\* writes of save_asset_metadata on the tables that start empty
MaxStoreWrites == 3
\* writes of save_asset_metadata between calls of trim_all_histories
MaxTrimWrites == 1
\* greatest limit passed to get_asset_history
MaxLimit == 3
\* longest list passed to trim_all_histories
MaxTrimList == 2
\* longest string passed to validate_symbol_format, beside the named ones
MaxFormatLen == 5

\* keep_last's default
DefaultKeepLast == 10

(***************************************************************************)
(* Strings.                                                                *)
(***************************************************************************)
BTC_USD == <<"B", "T", "C", "-", "U", "S", "D">>
ETH_USD == <<"E", "T", "H", "-", "U", "S", "D">>
TSLA == <<"T", "S", "L", "A">>
AAPL == <<"A", "A", "P", "L">>
GOOG == <<"G", "O", "O", "G">>
btc_usd == <<"b", "t", "c", "-", "u", "s", "d">>
bad == <<"b", "a", "d">>
digits_1234 == <<"1", "2", "3", "4">>

Digits == <<"0", "1", "2", "3", "4", "5", "6", "7", "8", "9">>
UpperChars == {"A", "B", "C", "D", "E", "G", "H", "L", "O", "P", "S", "T", "U"}
LowerChars == {"a", "b", "c", "d", "s", "t", "u"}

\* the code point of a character of a timestamp: "." sorts before every digit
CharCode ==
    [c \in {"."} \cup {Digits[i] : i \in 1..10} |->
        IF c = "." THEN 46 ELSE 47 + (CHOOSE i \in 1..10 : Digits[i] = c)]

Min(a, b) == IF a <= b THEN a ELSE b

\* Python's < on str: lexicographic by code point, a proper prefix is smaller
StrLess(a, b) ==
    \E i \in 1..(Min(Len(a), Len(b)) + 1) :
        /\ \A j \in 1..(i - 1) : a[j] = b[j]
        /\ \/ i > Len(a) /\ i <= Len(b)
           \/ i <= Len(a) /\ i <= Len(b) /\ CharCode[a[i]] < CharCode[b[i]]

\* str.endswith
EndsWith(s, suffix) ==
    /\ Len(s) >= Len(suffix)
    /\ SubSeq(s, Len(s) - Len(suffix) + 1, Len(s)) = suffix

\* str.isupper: at least one cased character and no lowercase one
IsUpper(s) ==
    /\ \E i \in 1..Len(s) : s[i] \in UpperChars
    /\ \A i \in 1..Len(s) : s[i] \notin LowerChars

\* a check that takes every string without a lowercase letter for a ticker
validate_symbol_format_NoLowercase(symbol) ==
    \/ EndsWith(symbol, <<"-", "U", "S", "D">>)
    \/ \A i \in 1..Len(symbol) : symbol[i] \notin LowerChars

\* validate_symbol_format(symbol), for a str
validate_symbol_format(symbol) ==
    EndsWith(symbol, <<"-", "U", "S", "D">>) \/ IsUpper(symbol)

(***************************************************************************)
(* datetime.now().isoformat(): seconds on two digits, followed by "." and  *)
(* the fraction unless the fraction is 0 (isoformat omits a zero           *)
(* microsecond field). The date and the hour:minute fields before the      *)
(* seconds are fixed-width digits like the seconds and are left out.       *)
(***************************************************************************)
IsoFormat(t) ==
    LET sec == t \div TicksPerSecond
        frac == t % TicksPerSecond
        ss == <<Digits[(sec \div 10) + 1], Digits[(sec % 10) + 1]>>
    IN  IF frac = 0 THEN ss ELSE ss \o <<".", Digits[frac + 1]>>

\* the readings datetime.now() can give after the reading `t`
Now(t) == {u \in {t, t + 1} : u <= MaxClock}

(***************************************************************************)
(* TinyDB tables.                                                          *)
(***************************************************************************)
HasKey(d, k) == k \in DOMAIN d

\* Table.insert: the document gets the next free identifier
NextId(table) ==
    IF table = <<>> THEN 1
    ELSE 1 + (CHOOSE m \in {table[i].doc_id : i \in 1..Len(table)} :
                 \A i \in 1..Len(table) : table[i].doc_id <= m)

Insert(table, value) == Append(table, [doc_id |-> NextId(table), value |-> value])

\* Table.remove(doc_ids=...): by the documents' identifiers
Remove(table, doc_ids) ==
    SelectSeq(table, LAMBDA d : \A i \in 1..Len(doc_ids) : doc_ids[i] # d.doc_id)

\* Table.search(Query().symbol == symbol), and the same filter over Table.all()
SearchSymbol(table, symbol) ==
    SelectSeq(table, LAMBDA d : HasKey(d.value, "symbol") /\ d.value.symbol = symbol)

\* dict.update: the keys of `fields` overwrite, the others stay
DictUpdate(old, fields) ==
    [k \in DOMAIN old \cup DOMAIN fields |->
        IF k \in DOMAIN fields THEN fields[k] ELSE old[k]]

\* Table.update(fields, Query().symbol == symbol)
UpdateSymbol(table, fields, symbol) ==
    [i \in 1..Len(table) |->
        IF HasKey(table[i].value, "symbol") /\ table[i].value.symbol = symbol
        THEN [table[i] EXCEPT !.value = DictUpdate(@, fields)]
        ELSE table[i]]

(***************************************************************************)
(* sorted(): stable, so documents with equal keys keep their order, also   *)
(* with reverse=True.                                                      *)
(***************************************************************************)
\* x.get('timestamp', '')
TimestampOf(d) == IF HasKey(d.value, "timestamp") THEN d.value.timestamp ELSE <<>>

Front(s) == SubSeq(s, 1, Len(s) - 1)

\* e placed after the elements of `sorted` whose key is not greater
InsertAsc(sorted, e) ==
    LET k == Cardinality({i \in 1..Len(sorted) :
                           ~ StrLess(TimestampOf(e), TimestampOf(sorted[i]))})
    IN  SubSeq(sorted, 1, k) \o <<e>> \o SubSeq(sorted, k + 1, Len(sorted))

\* sorted(s, key=lambda x: x.get('timestamp', ''))
RECURSIVE SortedAsc(_)
SortedAsc(s) ==
    IF s = <<>> THEN <<>> ELSE InsertAsc(SortedAsc(Front(s)), s[Len(s)])

\* e placed after the elements of `sorted` whose key is not smaller
InsertDesc(sorted, e) ==
    LET k == Cardinality({i \in 1..Len(sorted) :
                           ~ StrLess(sorted[i].value.timestamp, e.value.timestamp)})
    IN  SubSeq(sorted, 1, k) \o <<e>> \o SubSeq(sorted, k + 1, Len(sorted))

\* sorted(s, key=lambda x: x['timestamp'], reverse=True)
RECURSIVE SortedDesc(_)
SortedDesc(s) ==
    IF s = <<>> THEN <<>> ELSE InsertDesc(SortedDesc(Front(s)), s[Len(s)])

(***************************************************************************)
(* db_utils.py                                                             *)
(***************************************************************************)
default_symbols == <<BTC_USD, ETH_USD, TSLA>>

\* a get_symbols that inserts the default list at every call
get_symbols_Reseeding(table) ==
    LET result == SelectSeq(table, LAMBDA d : HasKey(d.value, "symbols"))
    IN  [ret |-> IF result = <<>> THEN default_symbols ELSE result[1].value.symbols,
         table |-> Insert(table, [symbols |-> default_symbols])]

\* get_symbols(): [ret, table], the list returned and the symbols table after
get_symbols(table) ==
    LET result == SelectSeq(table, LAMBDA d : HasKey(d.value, "symbols"))
    IN  IF result = <<>>
        THEN [ret |-> default_symbols,
              table |-> Insert(table, [symbols |-> default_symbols])]
        ELSE [ret |-> result[1].value.symbols, table |-> table]

\* a reset that leaves the history table alone
truncate_db_SymbolsOnly(symbols, history) ==
    [symbols |-> <<>>, history |-> history]

\* truncate_db(): [symbols, history], the symbols table and the history
\* table after the call; the table 'current' is not one of its operands
truncate_db(symbols, history) ==
    [symbols |-> <<>>, history |-> <<>>]

\* get_assets_with_metadata(): the documents of the table 'current'
get_assets_with_metadata(current) ==
    [i \in 1..Len(current) |-> current[i].value]

RequiredKeys == {"latest_price", "change_percent_24h", "average_price_7d"}

\* the three metric fields of an asset or of a stored dictionary
MetricsOfAsset(r) ==
    [latest_price |-> r.latest_price,
     change_percent_24h |-> r.change_percent_24h,
     average_price_7d |-> r.average_price_7d]

\* a save that writes the current record before it builds the history entry
save_asset_metadata_CurrentFirst(history, current, symbol, metadata, t) ==
    LET current_metadata ==
            DictUpdate(metadata, [last_updated |-> IsoFormat(t), symbol |-> symbol])
        upserted == IF SearchSymbol(current, symbol) # <<>>
                    THEN UpdateSymbol(current, current_metadata, symbol)
                    ELSE Insert(current, current_metadata)
    IN  IF ~ (RequiredKeys \subseteq DOMAIN metadata)
        THEN [history |-> history, current |-> upserted]
        ELSE [history |-> Insert(history, [symbol |-> symbol, timestamp |-> IsoFormat(t),
                                           metadata |-> MetricsOfAsset(metadata)]),
              current |-> upserted]

\* a save that inserts the current record without looking for an older one
save_asset_metadata_InsertOnly(history, current, symbol, metadata, t) ==
    IF ~ (RequiredKeys \subseteq DOMAIN metadata)
    THEN [history |-> history, current |-> current]
    ELSE [history |-> Insert(history, [symbol |-> symbol, timestamp |-> IsoFormat(t),
                                       metadata |-> MetricsOfAsset(metadata)]),
          current |-> Insert(current, DictUpdate(metadata,
                                 [last_updated |-> IsoFormat(t), symbol |-> symbol]))]

\* save_asset_metadata(symbol, metadata) at clock reading t:
\* [history, current], the two tables after the call
save_asset_metadata(history, current, symbol, metadata, t) ==
    IF ~ (RequiredKeys \subseteq DOMAIN metadata)
    THEN [history |-> history, current |-> current]   \* KeyError, swallowed
    ELSE
    LET timestamp == IsoFormat(t)
        history_entry ==
            [symbol |-> symbol,
             timestamp |-> timestamp,
             metadata |-> [latest_price |-> metadata.latest_price,
                           change_percent_24h |-> metadata.change_percent_24h,
                           average_price_7d |-> metadata.average_price_7d]]
        current_metadata ==
            DictUpdate(metadata, [last_updated |-> timestamp, symbol |-> symbol])
    IN  [history |-> Insert(history, history_entry),
         current |-> IF SearchSymbol(current, symbol) # <<>>
                     THEN UpdateSymbol(current, current_metadata, symbol)
                     ELSE Insert(current, current_metadata)]

\* the table operation of save_asset_metadata that raises, if one does:
\* history_table.insert (line 127) or the search, update or insert on the
\* table 'current' (lines 137-140)
StoreFaults == {"none", "history", "current"}

\* save_asset_metadata(symbol, metadata) on a store whose operation `fault`
\* raises: the except of line 142 logs, what was written before stays
save_asset_metadata_on(history, current, symbol, metadata, t, fault) ==
    LET r == save_asset_metadata(history, current, symbol, metadata, t)
    IN  CASE fault = "none" -> r
          [] fault = "history" -> [history |-> history, current |-> current]
          [] fault = "current" -> [history |-> r.history, current |-> current]

\* a read that sorts oldest first
get_asset_history_OldestFirst(history, symbol, limit) ==
    LET sorted_results == SortedAsc(SearchSymbol(history, symbol))
    IN  [i \in 1..Min(limit, Len(sorted_results)) |-> sorted_results[i].value]

\* get_asset_history(symbol, limit), for limit >= 0
get_asset_history(history, symbol, limit) ==
    LET results == SearchSymbol(history, symbol)
        sorted_results == SortedDesc(results)
    IN  [i \in 1..Min(limit, Len(sorted_results)) |-> sorted_results[i].value]

(***************************************************************************)
(* common_utils.py: the data source.                                       *)
(***************************************************************************)
\* the metrics the data source can report for a symbol: two different
\* quotes for TSLA, one for any other symbol
Metrics(symbol) ==
    {[latest_price |-> 1, change_percent_24h |-> 0, average_price_7d |-> 1]}
    \cup (IF symbol = TSLA
          THEN {[latest_price |-> 2, change_percent_24h |-> 1, average_price_7d |-> 1]}
          ELSE {})

EmptyData == [empty |-> TRUE]

\* what fetch_financial_data(symbol) can return: {} or the symbol's metrics
fetch_financial_data(symbol) ==
    {EmptyData} \cup {DictUpdate(m, [symbol |-> symbol]) : m \in Metrics(symbol)}

(***************************************************************************)
(* asset_service.py                                                        *)
(***************************************************************************)
\* a trim that evicts the one oldest entry of the symbol by its identifier
trim_asset_history_OneOldest(history, symbol, keep_last) ==
    LET entries == SearchSymbol(history, symbol)
    IN  IF Len(entries) > keep_last
        THEN Remove(history, <<SortedAsc(entries)[1].doc_id>>)
        ELSE history

\* trim_asset_history(symbol, keep_last): the history table after the call
trim_asset_history(history, symbol, keep_last) ==
    LET entries == SearchSymbol(history, symbol)
    IN  IF Len(entries) > keep_last
        THEN LET entries_sorted == SortedAsc(entries)
                 to_remove == SubSeq(entries_sorted, 1, Len(entries) - keep_last)
                 \* e.get('doc_id'): a key of the stored dictionary
                 with_id == SelectSeq(to_remove, LAMBDA e : HasKey(e.value, "doc_id"))
                 doc_ids == [i \in 1..Len(with_id) |-> with_id[i].value.doc_id]
             IN  IF doc_ids # <<>> THEN Remove(history, doc_ids) ELSE history
        ELSE history

\* the for loop of trim_all_histories from position i on; `faults` are the
\* positions at which the store is unavailable, where trim_asset_history
\* raises.  [history, performed, kind]: the history table after, the
\* positions whose trim was performed, and "none" (returned) or "raised"
RECURSIVE trim_all_from(_, _, _, _, _)
trim_all_from(history, symbols, keep_last, i, faults) ==
    IF i > Len(symbols)
    THEN [history |-> history, performed |-> {}, kind |-> "none"]
    ELSE IF i \in faults
    THEN [history |-> history, performed |-> {}, kind |-> "raised"]
    ELSE LET rest == trim_all_from(trim_asset_history(history, symbols[i], keep_last),
                                   symbols, keep_last, i + 1, faults)
         IN  [rest EXCEPT !.performed = @ \cup {i}]

trim_all_histories(history, symbols, keep_last, faults) ==
    trim_all_from(history, symbols, keep_last, 1, faults)

build_asset_with_metadata(data, t) ==
    [symbol |-> data.symbol,
     latest_price |-> data.latest_price,
     change_percent_24h |-> data.change_percent_24h,
     average_price_7d |-> data.average_price_7d,
     last_updated |-> IsoFormat(t)]

NoAsset == [symbol |-> <<>>]

\* fetch_and_save_asset(symbol) from the point where the awaited fetch has
\* returned `data`: t1 and t2 are the clock readings of save_asset_metadata
\* and build_asset_with_metadata, store_ok is whether history_table.all()
\* of trim_asset_history succeeds (its failure is not caught here).
\* [history, current, clock, kind, asset]: kind is "asset" (a record is
\* returned), "none" (None is returned) or "raised"
fetch_and_save_asset(data, history, current, now, t1, t2, store_ok) ==
    IF data # EmptyData /\ HasKey(data, "symbol")
    THEN LET saved == save_asset_metadata(history, current, data.symbol,
                          [latest_price |-> data.latest_price,
                           change_percent_24h |-> data.change_percent_24h,
                           average_price_7d |-> data.average_price_7d], t1)
         IN  IF store_ok
             THEN [history |-> trim_asset_history(saved.history, data.symbol, DefaultKeepLast),
                   current |-> saved.current, clock |-> t2,
                   kind |-> "asset", asset |-> build_asset_with_metadata(data, t2)]
             ELSE [history |-> saved.history, current |-> saved.current, clock |-> t1,
                   kind |-> "raised", asset |-> NoAsset]
    ELSE [history |-> history, current |-> current, clock |-> now,
          kind |-> "none", asset |-> NoAsset]

\* the store calls fetch_and_save_asset makes once the fetch has returned
\* `data`, in the order of lines 56-61: save_asset_metadata, then
\* trim_asset_history
fetch_and_save_calls(data) ==
    IF data # EmptyData /\ HasKey(data, "symbol")
    THEN <<[call |-> "save_asset_metadata", symbol |-> data.symbol],
           [call |-> "trim_asset_history", symbol |-> data.symbol]>>
    ELSE <<>>

\* awaits with one more await, in front of trim_asset_history
fetch_and_save_awaits_BeforeTrim == {"fetch_financial_data", "trim_asset_history"}

\* the calls fetch_and_save_asset awaits, its suspension points: the fetch of
\* line 54; save_asset_metadata, trim_asset_history and
\* build_asset_with_metadata (lines 56-62) are plain calls
fetch_and_save_awaits == {"fetch_financial_data"}

(***************************************************************************)
(* The frames of the calls that are not running.                           *)
(***************************************************************************)
IdleIng == [pc |-> "idle"]
IdleReg == <<>>
IdleFan == [pc |-> "idle"]
NoCall == [op |-> "none", symbol |-> <<>>, keep_last |-> 0, pre |-> <<>>,
           kind |-> "none", asset |-> NoAsset, again |-> FALSE]

(***************************************************************************)
(* Specification Spec: calls made directly on a store that earlier         *)
(* refreshes of PreloadSymbol have filled.                                 *)
(***************************************************************************)
PreloadSymbol == TSLA
StoreSymbols == {TSLA, AAPL}
PreloadMetrics == [latest_price |-> 1, change_percent_24h |-> 0, average_price_7d |-> 1]

\* the history and current tables after n refreshes of PreloadSymbol,
\* one per clock tick
RECURSIVE Preloaded(_)
Preloaded(n) ==
    IF n = 0 THEN [history |-> <<>>, current |-> <<>>]
    ELSE LET p == Preloaded(n - 1)
         IN  save_asset_metadata(p.history, p.current, PreloadSymbol, PreloadMetrics, n)

Init ==
    /\ symbols_table = <<>>
    /\ history_table = Preloaded(Preload).history
    /\ current_table = Preloaded(Preload).current
    /\ clock = Preload
    /\ last = NoCall
    /\ ing = IdleIng
    /\ reg = IdleReg
    /\ hash_seed = 0
    /\ fan = IdleFan

\* a task runs fetch_and_save_asset(symbol) to its end
FetchAndSaveAsset(symbol) ==
    /\ Len(history_table) < Preload + MaxWrites
    /\ \E data \in fetch_financial_data(symbol), store_ok \in BOOLEAN :
       \E t1 \in Now(clock) : \E t2 \in Now(t1) :
          LET r == fetch_and_save_asset(data, history_table, current_table,
                                        clock, t1, t2, store_ok)
          IN  /\ history_table' = r.history
              /\ current_table' = r.current
              /\ clock' = r.clock
              /\ last' = [op |-> "fetch_and_save_asset", symbol |-> symbol,
                          keep_last |-> DefaultKeepLast, pre |-> history_table,
                          kind |-> r.kind, asset |-> r.asset, again |-> FALSE]
    /\ UNCHANGED <<symbols_table, ing, reg, hash_seed, fan>>

\* the call before was the same trim_asset_history call, and it returned
SameTrimBefore(symbol, keep_last) ==
    /\ last.op = "trim_asset_history"
    /\ last.kind = "none"
    /\ last.symbol = symbol
    /\ last.keep_last = keep_last

\* trim_asset_history(symbol, keep_last) called on the history table
TrimAssetHistory(symbol, keep_last) ==
    /\ \E store_ok \in BOOLEAN :
          /\ history_table' = IF store_ok
                              THEN trim_asset_history(history_table, symbol, keep_last)
                              ELSE history_table
          /\ last' = [op |-> "trim_asset_history", symbol |-> symbol,
                      keep_last |-> keep_last, pre |-> history_table,
                      kind |-> IF store_ok THEN "none" ELSE "raised", asset |-> NoAsset,
                      again |-> SameTrimBefore(symbol, keep_last)]
    /\ UNCHANGED <<symbols_table, current_table, clock, ing, reg, hash_seed, fan>>

Next ==
    \/ \E symbol \in StoreSymbols : FetchAndSaveAsset(symbol)
    \/ \E symbol \in StoreSymbols, keep_last \in 0..MaxKeep : TrimAssetHistory(symbol, keep_last)

Spec == Init /\ [][Next]_vars

(***************************************************************************)
(* ingest_assets_service(update_symbols).  The frame `ing` holds the       *)
(* call's local variables and its position: "start" (not yet run),         *)
(* "fetching" (suspended in the fetch of update_symbols[i]), "validating"  *)
(* (suspended in is_valid_symbol inside add_symbol_with_metadata), "done"  *)
(* (returned `ret`) or "raised" (left by an exception).  Besides the       *)
(* locals it logs what the call did: per input position the outcome of     *)
(* fetch_and_save_asset and of the registration, the symbols whose fetch   *)
(* returned data, the symbols of the history entries inserted, and the     *)
(* calls of save_asset_metadata and trim_asset_history in the order they   *)
(* were made (store_calls).                                                *)
(***************************************************************************)
InList(x, list) == \E i \in 1..Len(list) : list[i] = x

\* the elements of `list` at the positions in P, in the order of the list
SubseqAt(list, P) ==
    [k \in 1..Cardinality(P) |->
        list[CHOOSE i \in P : Cardinality({j \in P : j <= i}) = k]]

\* the documents of `new` that `old` does not hold
NewEntries(old, new) ==
    SelectSeq(new, LAMBDA d : \A i \in 1..Len(old) : old[i].doc_id # d.doc_id)

SymbolsOf(table) == [i \in 1..Len(table) |-> table[i].value.symbol]

\* the dictionary ingest_assets_service returns
ingest_result(f) ==
    [message |-> <<"Processed", Len(f.update_symbols), "symbols">>,
     updated_count |-> Len(f.results),
     success_messages |-> f.success_messages,
     error_messages |-> f.error_messages,
     updated_assets |-> [i \in 1..Len(f.results) |-> f.results[i].symbol]]

\* the for loop moves to the next symbol, or the call returns
NextSymbol(f) ==
    IF f.i < Len(f.update_symbols)
    THEN [f EXCEPT !.i = @ + 1, !.pc = "fetching"]
    ELSE [f EXCEPT !.i = @ + 1, !.pc = "done", !.ret = ingest_result(f)]

\* a handler that lets the exception leave the call
OnException_Propagates(f, symbol) == [f EXCEPT !.pc = "raised"]

\* except Exception as e: error_messages.append(...), and the loop goes on
OnException(f, symbol) ==
    NextSymbol([f EXCEPT !.error_messages = Append(@, <<"Error processing", symbol>>)])

\* results.insert(0, asset)
RecordAsset_Front(f, asset) == [f EXCEPT !.results = <<asset>> \o @]

\* results.append(asset)
RecordAsset(f, asset) == [f EXCEPT !.results = Append(@, asset)]

\* the outcome of the registration of the symbol at hand: the message goes
\* to success_messages or error_messages, then results.append(asset)
AfterRegistration(f, success, message) ==
    LET g == IF success
             THEN [f EXCEPT !.success_messages = Append(@, message)]
             ELSE [f EXCEPT !.error_messages = Append(@, message)]
        h == [g EXCEPT !.outcomes[f.i].registered = IF success THEN "ok" ELSE "failed"]
    IN  NextSymbol(RecordAsset(h, f.asset))

\* the body of the loop once fetch_and_save_asset(symbol) has ended with r
AfterFetchAndSave(f, symbol, r) ==
    LET g == [f EXCEPT !.outcomes = Append(@, [kind |-> r.kind, registered |-> "none"])]
    IN  CASE r.kind = "raised" -> OnException(g, symbol)
          [] r.kind = "none" ->
                NextSymbol([g EXCEPT !.error_messages =
                                Append(@, <<"Could not fetch data for", symbol>>)])
          [] r.kind = "asset" ->
                IF ~ InList(symbol, f.all_symbols)
                THEN \* add_symbol_with_metadata(symbol, ...) is called
                     LET h == [g EXCEPT !.asset = r.asset,
                                        !.add_calls = Append(@, symbol)]
                     IN  IF ~ validate_symbol_format(symbol)
                         THEN AfterRegistration(h, FALSE, <<"Invalid symbol format", symbol>>)
                         ELSE [h EXCEPT !.pc = "validating"]
                ELSE NextSymbol(RecordAsset(
                         [g EXCEPT !.success_messages = Append(@, <<"Updated", symbol>>)],
                         r.asset))

\* existing_symbols + [symbol]
AddToList(existing_symbols, symbol) == existing_symbols \o <<symbol>>

\* add_symbol_with_metadata from the point where is_valid_symbol has
\* returned True: [symbols, history, current], the three tables after
add_symbol_with_metadata(symbols, history, current, symbol, metadata, t) ==
    LET got == get_symbols(symbols)
        existing_symbols == got.ret
        saved == save_asset_metadata(history, current, symbol, metadata, t)
    IN  [symbols |-> IF ~ InList(symbol, existing_symbols)
                     THEN Insert(<<>>, [symbols |-> AddToList(existing_symbols, symbol)])
                     ELSE got.table,
         history |-> saved.history,
         current |-> saved.current]

\* the store calls add_symbol_with_metadata makes on the history table once
\* is_valid_symbol has returned True: save_asset_metadata (line 190) only
add_symbol_calls(symbol) ==
    <<[call |-> "save_asset_metadata", symbol |-> symbol]>>

IngestSymbols == {TSLA, AAPL, btc_usd}

RECURSIVE SeqsUpTo(_, _)
SeqsUpTo(S, n) ==
    IF n = 0 THEN {<<>>}
    ELSE LET shorter == SeqsUpTo(S, n - 1)
         IN  shorter \cup {Append(q, x) : q \in {r \in shorter : Len(r) = n - 1}, x \in S}

IngestInputs == SeqsUpTo(IngestSymbols, MaxInput) \ {<<>>}

NoResult == [message |-> <<>>, updated_count |-> 0, success_messages |-> <<>>,
             error_messages |-> <<>>, updated_assets |-> <<>>]

InitIngest ==
    /\ symbols_table = <<>>
    /\ history_table = <<>>
    /\ current_table = <<>>
    /\ clock = MaxClock - 1
    /\ last = NoCall
    /\ reg = IdleReg
    /\ hash_seed = 0
    /\ fan = IdleFan
    /\ \E update_symbols \in IngestInputs :
          ing = [pc |-> "start", update_symbols |-> update_symbols, i |-> 0,
                 all_symbols |-> <<>>, results |-> <<>>,
                 success_messages |-> <<>>, error_messages |-> <<>>,
                 asset |-> NoAsset, ret |-> NoResult,
                 outcomes |-> <<>>, add_calls |-> <<>>,
                 fetched |-> <<>>, appended |-> <<>>, store_calls |-> <<>>]

\* all_symbols = get_symbols(), then the loop reaches its first fetch
IngestStart ==
    /\ ing.pc = "start"
    /\ LET got == get_symbols(symbols_table)
       IN  /\ symbols_table' = got.table
           /\ ing' = NextSymbol([ing EXCEPT !.all_symbols = got.ret])
    /\ UNCHANGED <<history_table, current_table, clock, last, reg, hash_seed, fan>>

\* the fetch of update_symbols[i] returns; the loop body runs up to the next
\* suspension
IngestFetched ==
    /\ ing.pc = "fetching"
    /\ LET symbol == ing.update_symbols[ing.i]
       IN  \E data \in fetch_financial_data(symbol), store_ok \in BOOLEAN :
           \E t1 \in Now(clock) : \E t2 \in Now(t1) :
              LET r == fetch_and_save_asset(data, history_table, current_table,
                                            clock, t1, t2, store_ok)
                  f == [ing EXCEPT
                          !.fetched = IF data # EmptyData THEN Append(@, symbol) ELSE @,
                          !.appended = @ \o SymbolsOf(NewEntries(history_table, r.history)),
                          !.store_calls = @ \o fetch_and_save_calls(data)]
              IN  /\ history_table' = r.history
                  /\ current_table' = r.current
                  /\ clock' = r.clock
                  /\ ing' = AfterFetchAndSave(f, symbol, r)
    /\ UNCHANGED <<symbols_table, last, reg, hash_seed, fan>>

\* is_valid_symbol returns inside add_symbol_with_metadata
IngestValidated ==
    /\ ing.pc = "validating"
    /\ LET symbol == ing.update_symbols[ing.i]
       IN  \E valid \in BOOLEAN :
              IF valid
              THEN \E t \in Now(clock) :
                      LET r == add_symbol_with_metadata(symbols_table, history_table,
                                   current_table, symbol, MetricsOfAsset(ing.asset), t)
                          f == [ing EXCEPT
                                  !.appended =
                                      @ \o SymbolsOf(NewEntries(history_table, r.history)),
                                  !.store_calls = @ \o add_symbol_calls(symbol)]
                      IN  /\ symbols_table' = r.symbols
                          /\ history_table' = r.history
                          /\ current_table' = r.current
                          /\ clock' = t
                          /\ ing' = AfterRegistration(f, TRUE,
                                        <<"Successfully added", symbol, "with metadata">>)
              ELSE /\ ing' = AfterRegistration(ing, FALSE,
                                 <<"Symbol does not exist or is not valid", symbol>>)
                   /\ UNCHANGED <<symbols_table, history_table, current_table, clock>>
    /\ UNCHANGED <<last, reg, hash_seed, fan>>

NextIngest == IngestStart \/ IngestFetched \/ IngestValidated

SpecIngest == InitIngest /\ [][NextIngest]_vars

(***************************************************************************)
(* Two concurrent registration calls on the event loop, each either        *)
(* save_symbols(symbols) or add_symbol_with_metadata(symbol, metadata).    *)
(* A frame of `reg` holds the call's locals and its position: "start",     *)
(* "checking" (suspended in the existence check of line 61 or 181) or      *)
(* "done".  It also logs the symbols the call found valid (registered),    *)
(* the tracked list as it was when the call started (at_start), the        *)
(* symbols table when the call started and when it returned, and whether   *)
(* the other call was suspended when this one resumed.                     *)
(***************************************************************************)
SetOf(list) == {list[i] : i \in 1..Len(list)}

\* list(a set of str): the iteration order of a set follows the hashes of
\* its elements, which are fixed within a process and differ between
\* processes.  The order is that of the known symbols rotated by the seed.
KnownSymbols == <<BTC_USD, ETH_USD, TSLA, AAPL, GOOG, btc_usd>>

HashOrder(seed) ==
    [i \in 1..Len(KnownSymbols) |->
        KnownSymbols[((i - 1 + seed) % Len(KnownSymbols)) + 1]]

ListOfSet(S, seed) ==
    SubseqAt(HashOrder(seed), {i \in 1..Len(KnownSymbols) : HashOrder(seed)[i] \in S})

\* [s for s in symbols if validate_symbol_format(s)]
FormatValid(symbols) == SelectSeq(symbols, validate_symbol_format)

\* the tracked list read when the call started, before the suspension
ExistingSymbols_Stale(f, table) == f.at_start

\* existing_symbols = get_symbols(), read after the existence checks
ExistingSymbols(f, table) == get_symbols(table).ret

\* return get_symbols(), as the except clause of save_symbols does
save_symbols_none_Listing(table) == get_symbols(table)

\* lines 57-59 and 63-65, return []: [ret, table], the symbols table is not
\* touched
save_symbols_none(table) == [ret |-> <<>>, table |-> table]

\* a merge that concatenates the two lists: existing_symbols + valid_symbols
save_symbols_merge_Concat(f, table, seed) ==
    ExistingSymbols(f, table) \o f.valid_symbols

\* save_symbols from the point where the existence checks have returned
\* and valid_symbols is not empty: list(set(existing_symbols + valid_symbols))
save_symbols_merge(f, table, seed) ==
    ListOfSet(SetOf(ExistingSymbols(f, table) \o f.valid_symbols), seed)

RegTasks == DOMAIN reg
RegSymbols == {AAPL, GOOG, btc_usd}

RegCalls ==
    {[kind |-> "save_symbols", symbols |-> q] :
        q \in SeqsUpTo(RegSymbols, MaxRegInput) \ {<<>>}}
    \cup {[kind |-> "add_symbol_with_metadata", symbols |-> <<x>>] : x \in RegSymbols}

RegFrame(call) ==
    [kind |-> call.kind, pc |-> "start", symbols |-> call.symbols,
     format_valid |-> <<>>, valid_symbols |-> <<>>,
     ret |-> <<>>, registered |-> {}, at_start |-> <<>>, overlapped |-> FALSE,
     store_at_start |-> <<>>, store_at_return |-> <<>>]

InitRegister ==
    /\ symbols_table = <<>>
    /\ history_table = <<>>
    /\ current_table = <<>>
    /\ clock = MaxClock - 1
    /\ last = NoCall
    /\ ing = IdleIng
    /\ hash_seed \in 0..MaxSeed
    /\ fan = IdleFan
    /\ \E c1, c2 \in RegCalls : reg = <<RegFrame(c1), RegFrame(c2)>>

\* the call runs from its start to the existence check (or to its return)
RegStart(t) ==
    /\ reg[t].pc = "start"
    /\ LET f == [reg[t] EXCEPT !.at_start = get_symbols(symbols_table).ret,
                               !.store_at_start = symbols_table,
                               !.format_valid = FormatValid(reg[t].symbols)]
           none == save_symbols_none(symbols_table)
       IN  IF f.format_valid # <<>>
           THEN /\ reg' = [reg EXCEPT ![t] = [f EXCEPT !.pc = "checking"]]
                /\ UNCHANGED symbols_table
           ELSE IF f.kind = "save_symbols"
           THEN /\ reg' = [reg EXCEPT ![t] = [f EXCEPT !.pc = "done", !.ret = none.ret,
                                                        !.store_at_return = none.table]]
                /\ symbols_table' = none.table
           ELSE /\ reg' = [reg EXCEPT ![t] =
                        [f EXCEPT !.pc = "done",
                                  !.ret = <<FALSE, "Invalid symbol format", f.symbols[1]>>,
                                  !.store_at_return = symbols_table]]
                /\ UNCHANGED symbols_table
    /\ UNCHANGED <<history_table, current_table, clock, last, ing, hash_seed, fan>>

\* save_symbols resumes with the results of the existence checks
SaveSymbolsChecked(t) ==
    /\ reg[t].pc = "checking"
    /\ reg[t].kind = "save_symbols"
    /\ \E checks \in [1..Len(reg[t].format_valid) -> BOOLEAN] :
          LET valid_symbols ==
                  SubseqAt(reg[t].format_valid,
                           {i \in 1..Len(reg[t].format_valid) : checks[i]})
              f == [reg[t] EXCEPT !.valid_symbols = valid_symbols,
                                  !.overlapped = \E u \in RegTasks : reg[u].pc = "checking" /\ u # t,
                                  !.pc = "done"]
              none == save_symbols_none(symbols_table)
          IN  IF valid_symbols = <<>>
              THEN /\ reg' = [reg EXCEPT ![t] = [f EXCEPT !.ret = none.ret,
                                                           !.store_at_return = none.table]]
                   /\ symbols_table' = none.table
              ELSE LET updated_symbols == save_symbols_merge(f, symbols_table, hash_seed)
                       updated_table == Insert(<<>>, [symbols |-> updated_symbols])
                   IN  /\ symbols_table' = updated_table
                       /\ reg' = [reg EXCEPT ![t] =
                                     [f EXCEPT !.ret = updated_symbols,
                                               !.registered = SetOf(valid_symbols),
                                               !.store_at_return = updated_table]]
    /\ UNCHANGED <<history_table, current_table, clock, last, ing, hash_seed, fan>>

\* add_symbol_with_metadata resumes with the result of is_valid_symbol
AddSymbolChecked(t) ==
    /\ reg[t].pc = "checking"
    /\ reg[t].kind = "add_symbol_with_metadata"
    /\ LET symbol == reg[t].symbols[1]
           f == [reg[t] EXCEPT !.overlapped = \E u \in RegTasks : reg[u].pc = "checking" /\ u # t,
                               !.pc = "done"]
       IN  \E valid \in BOOLEAN :
              IF valid
              THEN \E now \in Now(clock) :
                      LET r == add_symbol_with_metadata(symbols_table, history_table,
                                   current_table, symbol, PreloadMetrics, now)
                      IN  /\ symbols_table' = r.symbols
                          /\ history_table' = r.history
                          /\ current_table' = r.current
                          /\ clock' = now
                          /\ reg' = [reg EXCEPT ![t] =
                                [f EXCEPT !.ret = <<TRUE, "Successfully added", symbol>>,
                                          !.valid_symbols = <<symbol>>,
                                          !.registered = {symbol},
                                          !.store_at_return = r.symbols]]
              ELSE /\ reg' = [reg EXCEPT ![t] =
                                [f EXCEPT !.ret = <<FALSE, "Symbol does not exist", symbol>>,
                                          !.store_at_return = symbols_table]]
                   /\ UNCHANGED <<symbols_table, history_table, current_table, clock>>
    /\ UNCHANGED <<last, ing, hash_seed, fan>>

NextRegister ==
    \E t \in RegTasks : RegStart(t) \/ SaveSymbolsChecked(t) \/ AddSymbolChecked(t)

SpecRegister == InitRegister /\ [][NextRegister]_vars

(***************************************************************************)
(* Calls made one after the other on the history and current tables:       *)
(* save_asset_metadata and get_asset_history from empty tables             *)
(* on a working store (specification SpecStore), save_asset_metadata and   *)
(* trim_all_histories on a store whose operations may raise, from tables   *)
(* that hold some entries (specification SpecTrimAll).  `last`              *)
(* holds the last call, its arguments, the tables before it and its        *)
(* result.                                                                 *)
(***************************************************************************)
\* a dictionary without one of its keys
Without(dict, key) == [k \in DOMAIN dict \ {key} |-> dict[k]]

\* the metadata passed to save_asset_metadata: the metrics of the symbol, or
\* metrics that lack a required field
MetadataInputs(symbol) ==
    Metrics(symbol) \cup {Without(PreloadMetrics, key) : key \in RequiredKeys}

TrimInputs == SeqsUpTo(StoreSymbols, MaxTrimList) \ {<<>>}

InitStore ==
    /\ symbols_table = <<>>
    /\ history_table = <<>>
    /\ current_table = <<>>
    /\ clock = MaxClock - MaxStoreWrites
    /\ last = NoCall
    /\ ing = IdleIng
    /\ reg = IdleReg
    /\ hash_seed = 0
    /\ fan = IdleFan

\* save_asset_metadata(symbol, metadata), the table operation `fault`
\* raising; the try of line 114 encloses the whole body, so the call returns
\* in every case
SaveAssetMetadata(symbol, metadata, fault) ==
    /\ Len(history_table) < MaxStoreWrites
    /\ \E t \in Now(clock) :
          LET r == save_asset_metadata_on(history_table, current_table, symbol,
                                          metadata, t, fault)
          IN  /\ history_table' = r.history
              /\ current_table' = r.current
              /\ clock' = t
              /\ last' = [op |-> "save_asset_metadata", symbol |-> symbol,
                          metadata |-> metadata, pre |-> history_table,
                          pre_current |-> current_table, kind |-> "none",
                          fault |-> fault]
    /\ UNCHANGED <<symbols_table, ing, reg, hash_seed, fan>>

\* get_asset_history(symbol, limit)
GetAssetHistory(symbol, limit) ==
    /\ last' = [op |-> "get_asset_history", symbol |-> symbol, limit |-> limit,
                pre |-> history_table,
                ret |-> get_asset_history(history_table, symbol, limit)]
    /\ UNCHANGED <<symbols_table, history_table, current_table, clock, ing, reg, hash_seed, fan>>

\* trim_all_histories(symbols, keep_last), the store being unavailable at
\* the position `fault` of the list (at none if fault = 0)
TrimAllHistories(symbols, keep_last, fault) ==
    /\ LET faults == {fault} \ {0}
           r == trim_all_histories(history_table, symbols, keep_last, faults)
       IN  /\ history_table' = r.history
           /\ last' = [op |-> "trim_all_histories", symbols |-> symbols,
                       keep_last |-> keep_last, faults |-> faults, pre |-> history_table,
                       performed |-> r.performed, kind |-> r.kind]
    /\ UNCHANGED <<symbols_table, current_table, clock, ing, reg, hash_seed, fan>>

NextStore ==
    \/ \E symbol \in StoreSymbols : \E metadata \in MetadataInputs(symbol) :
          SaveAssetMetadata(symbol, metadata, "none")
    \/ \E symbol \in StoreSymbols, limit \in 0..MaxLimit : GetAssetHistory(symbol, limit)

SpecStore == InitStore /\ [][NextStore]_vars

\* the tables hold the entries of earlier refreshes of PreloadSymbol, and
\* MaxTrimWrites more writes are made
InitTrimAll ==
    /\ symbols_table = <<>>
    /\ history_table = Preloaded(MaxStoreWrites - MaxTrimWrites).history
    /\ current_table = Preloaded(MaxStoreWrites - MaxTrimWrites).current
    /\ clock = MaxClock - MaxTrimWrites
    /\ last = NoCall
    /\ ing = IdleIng
    /\ reg = IdleReg
    /\ hash_seed = 0
    /\ fan = IdleFan

NextTrimAll ==
    \/ \E symbol \in StoreSymbols : \E metadata \in MetadataInputs(symbol) :
          \E fault \in StoreFaults : SaveAssetMetadata(symbol, metadata, fault)
    \/ \E symbols \in TrimInputs, keep_last \in {0, DefaultKeepLast} :
          \E fault \in 0..Len(symbols) : TrimAllHistories(symbols, keep_last, fault)

SpecTrimAll == InitTrimAll /\ [][NextTrimAll]_vars

(***************************************************************************)
(* Calls on the tracked-symbol store made one after the other, from a      *)
(* fresh store: get_symbols() and save_symbols(symbols).  A save_symbols   *)
(* call uses the first frame of `reg`; `last` holds the last get_symbols   *)
(* call: the symbols table before (pre) and after (post) it, the list it   *)
(* returned, and whether it follows another get_symbols call directly      *)
(* (again), with the list that call returned (prev_ret), and whether it    *)
(* follows a truncate_db call directly (after_truncate), with the symbols  *)
(* and history tables that call emptied (truncated, truncated_history).    *)
(***************************************************************************)
SymSymbols == {AAPL, bad, GOOG}
SymInputs == SeqsUpTo(SymSymbols, MaxSymInput) \ {<<>>}

NoCallInFlight == \A t \in RegTasks : reg[t].pc = "done"

InitSymbols ==
    /\ symbols_table = <<>>
    /\ history_table = <<>>
    /\ current_table = <<>>
    /\ clock = MaxClock
    /\ last = NoCall
    /\ ing = IdleIng
    /\ reg = IdleReg
    /\ hash_seed \in 0..MaxSeed
    /\ fan = IdleFan

\* get_symbols()
GetSymbols ==
    /\ LET got == get_symbols(symbols_table)
           again == last.op = "get_symbols" /\ last.post = symbols_table
           after_truncate == last.op = "truncate_db"
       IN  /\ symbols_table' = got.table
           /\ last' = [op |-> "get_symbols", pre |-> symbols_table, post |-> got.table,
                       ret |-> got.ret, again |-> again,
                       prev_ret |-> IF again THEN last.ret ELSE <<>>,
                       after_truncate |-> after_truncate,
                       truncated |-> IF after_truncate THEN last.pre ELSE <<>>,
                       truncated_history |->
                           IF after_truncate THEN last.pre_history ELSE <<>>]
    /\ UNCHANGED <<history_table, current_table, clock, ing, reg, hash_seed, fan>>

\* save_symbols(symbols) is called
SaveSymbolsCalled(symbols) ==
    /\ NoCallInFlight
    /\ reg' = <<RegFrame([kind |-> "save_symbols", symbols |-> symbols])>>
    /\ UNCHANGED <<symbols_table, history_table, current_table, clock, last, ing, hash_seed, fan>>

NextSymbols ==
    \/ NoCallInFlight /\ GetSymbols
    \/ \E symbols \in SymInputs : SaveSymbolsCalled(symbols)
    \/ \E t \in RegTasks : RegStart(t) \/ SaveSymbolsChecked(t)

SpecSymbols == InitSymbols /\ [][NextSymbols]_vars

(***************************************************************************)
(* validate_symbol_format(symbol) applied to the strings of the tests and  *)
(* to every string of at most MaxFormatLen characters over an uppercase    *)
(* letter, a lowercase letter, a digit and the characters of "-USD"        *)
(* (specification SpecFormat).  `last` holds the argument, and the result  *)
(* once the call has returned.                                             *)
(***************************************************************************)
FormatChars == {"T", "b", "1", "-", "U", "S", "D"}

FormatInputs ==
    SeqsUpTo(FormatChars, MaxFormatLen) \cup {BTC_USD, TSLA, btc_usd, digits_1234}

\* a call validate_symbol_format(symbol) is about to be made
InitFormat ==
    /\ symbols_table = <<>>
    /\ history_table = <<>>
    /\ current_table = <<>>
    /\ clock = MaxClock
    /\ last \in {[op |-> "call", symbol |-> symbol] : symbol \in FormatInputs}
    /\ ing = IdleIng
    /\ reg = IdleReg
    /\ hash_seed = 0
    /\ fan = IdleFan

\* validate_symbol_format(symbol)
ValidateSymbolFormat ==
    /\ last.op = "call"
    /\ last' = [op |-> "validate_symbol_format", symbol |-> last.symbol,
                ret |-> validate_symbol_format(last.symbol)]
    /\ UNCHANGED <<symbols_table, history_table, current_table, clock, ing, reg, hash_seed, fan>>

NextFormat == ValidateSymbolFormat

SpecFormat == InitFormat /\ [][NextFormat]_vars

(***************************************************************************)
(* Every call on the tracked-symbol store, interleaved: two concurrent     *)
(* registration calls (save_symbols or add_symbol_with_metadata, frames of *)
(* `reg`) and, at any point between their steps, get_symbols() and         *)
(* truncate_db(), which do not suspend (specification SpecRegistry).  The  *)
(* inputs name an untracked symbol and a default one, once or twice.       *)
(***************************************************************************)
\* truncate_db()
TruncateDb ==
    /\ LET r == truncate_db(symbols_table, history_table)
       IN  /\ symbols_table' = r.symbols
           /\ history_table' = r.history
           /\ last' = [op |-> "truncate_db", pre |-> symbols_table,
                       pre_history |-> history_table, pre_current |-> current_table]
    /\ UNCHANGED <<current_table, clock, ing, reg, hash_seed, fan>>

RegistrySymbols == {AAPL, TSLA}

\* the lists passed to save_symbols: a new symbol, the same one twice, a
\* tracked one with a new one
RegistryLists == {<<AAPL>>, <<AAPL, AAPL>>, <<TSLA, AAPL>>}

RegistryCalls ==
    {[kind |-> "save_symbols", symbols |-> q] : q \in RegistryLists}
    \cup {[kind |-> "add_symbol_with_metadata", symbols |-> <<x>>] : x \in RegistrySymbols}

InitRegistry ==
    /\ symbols_table = <<>>
    /\ history_table = <<>>
    /\ current_table = <<>>
    /\ clock = MaxClock
    /\ last = NoCall
    /\ ing = IdleIng
    /\ hash_seed \in 0..MaxSeed
    /\ fan = IdleFan
    /\ \E c1, c2 \in RegistryCalls : reg = <<RegFrame(c1), RegFrame(c2)>>

NextRegistry ==
    \/ \E t \in RegTasks : RegStart(t) \/ SaveSymbolsChecked(t) \/ AddSymbolChecked(t)
    \/ GetSymbols
    \/ TruncateDb

SpecRegistry == InitRegistry /\ [][NextRegistry]_vars

(***************************************************************************)
(* The full-store reset: truncate_db() among save_asset_metadata,          *)
(* get_symbols and get_assets_with_metadata calls made one after the       *)
(* other (specification SpecReset).  The store starts fresh or tracking    *)
(* AAPL beside the defaults, as add_symbol_with_metadata leaves it.        *)
(***************************************************************************)
InitReset ==
    /\ symbols_table \in {<<>>, Insert(<<>>, [symbols |-> AddToList(default_symbols, AAPL)])}
    /\ history_table = <<>>
    /\ current_table = <<>>
    /\ clock = MaxClock - MaxStoreWrites
    /\ last = NoCall
    /\ ing = IdleIng
    /\ reg = IdleReg
    /\ hash_seed = 0
    /\ fan = IdleFan

\* get_assets_with_metadata()
GetAssetsWithMetadata ==
    /\ last' = [op |-> "get_assets_with_metadata",
                ret |-> get_assets_with_metadata(current_table),
                after_truncate |-> last.op = "truncate_db",
                pre_history |-> history_table]
    /\ UNCHANGED <<symbols_table, history_table, current_table, clock, ing, reg, hash_seed, fan>>

NextReset ==
    \/ \E symbol \in StoreSymbols : \E metadata \in Metrics(symbol) :
          SaveAssetMetadata(symbol, metadata, "none")
    \/ TruncateDb
    \/ GetSymbols
    \/ GetAssetsWithMetadata

SpecReset == InitReset /\ [][NextReset]_vars

(***************************************************************************)
(* add_assets_service(symbols) and update_assets_and_trim_history(symbols): *)
(* both create one fetch_and_save_asset task per symbol and await           *)
(* asyncio.gather on them.  The frame `fan` holds the call's position:      *)
(* "start", "gathering" (suspended in the gather), "done" (returned `ret`)  *)
(* or "raised" (left by an exception), and one record per task: its         *)
(* position ("fetching", "done" or "raised"), the data its fetch returned,  *)
(* what fetch_and_save_asset returned, the history entries it inserted and  *)
(* whether it changed the current table.  `order` is the order in which     *)
(* the tasks ended, `ended_at_join` the number of tasks that had ended      *)
(* when the gather was left.  A task is at "saved" when it is suspended     *)
(* between save_asset_metadata and trim_asset_history, which takes an await *)
(* there (fetch_and_save_awaits).                                           *)
(*                                                                         *)
(* fetch_financial_data contains no await of its own, so on the event loop  *)
(* each task runs to its end in one step and the tasks end in input order;  *)
(* the tasks of the model may end in any order, which includes that one.    *)
(***************************************************************************)
\* AssetWithMetadata(symbol=symbol): the other fields keep their default None
\* (a field that is None is absent from the record)
Placeholder(symbol) == [symbol |-> symbol]

\* results in the order in which the tasks ended
GatherResults_CompletionOrder(f) ==
    [k \in 1..Len(f.order) |-> f.tasks[f.order[k]]]

\* asyncio.gather: the results are in the order of the awaitables passed
GatherResults(f) == f.tasks

\* lines 78-84: one record per (symbol, result) pair of the zip
assets_with_metadata(symbols, results) ==
    [i \in 1..Min(Len(symbols), Len(results)) |->
        IF results[i].kind = "asset" THEN results[i].asset ELSE Placeholder(symbols[i])]

FanOps == {"add_assets_service", "update_assets_and_trim_history"}
FanSymbols == {TSLA, AAPL}
FanInputs == SeqsUpTo(FanSymbols, MaxFan) \ {<<>>}

NoTask == [pc |-> "fetching", data |-> EmptyData, kind |-> "none", asset |-> NoAsset,
           appended |-> <<>>, current_changed |-> FALSE]

InitFan ==
    /\ symbols_table = <<>>
    /\ history_table = <<>>
    /\ current_table = <<>>
    /\ clock = MaxClock   \* the tasks of one call run within one reading of the clock
    /\ last = NoCall
    /\ ing = IdleIng
    /\ reg = IdleReg
    /\ hash_seed = 0
    /\ \E op \in FanOps, symbols \in FanInputs :
          fan = [op |-> op, pc |-> "start", symbols |-> symbols, tasks |-> <<>>,
                 order |-> <<>>, ended_at_join |-> 0, ret |-> <<>>]

\* the tasks are created and the call suspends in asyncio.gather
FanStart ==
    /\ fan.pc = "start"
    /\ fan' = [fan EXCEPT !.pc = "gathering",
                          !.tasks = [i \in 1..Len(fan.symbols) |-> NoTask]]
    /\ UNCHANGED <<symbols_table, history_table, current_table, clock, last, ing, reg, hash_seed>>

\* task i resumes and runs to its next suspension point or to its end: from
\* the fetch, or from an await in front of trim_asset_history if there is
\* one; the tasks of a gather that an exception has left keep running
FanTaskFetched(i) ==
    /\ fan.pc \in {"gathering", "raised"}
    /\ fan.tasks[i].pc \in {"fetching", "saved"}
    /\ IF fan.tasks[i].pc = "fetching"
       THEN \E data \in fetch_financial_data(fan.symbols[i]), store_ok \in BOOLEAN :
            \E t1 \in Now(clock) : \E t2 \in Now(t1) :
               IF /\ "trim_asset_history" \in fetch_and_save_awaits
                  /\ fetch_and_save_calls(data) # <<>>
               THEN LET saved == save_asset_metadata(history_table, current_table,
                                     data.symbol, MetricsOfAsset(data), t1)
                    IN  /\ history_table' = saved.history
                        /\ current_table' = saved.current
                        /\ clock' = t1
                        /\ fan' = [fan EXCEPT
                              !.tasks[i] =
                                  [pc |-> "saved", data |-> data, kind |-> "none",
                                   asset |-> NoAsset,
                                   appended |-> NewEntries(history_table, saved.history),
                                   current_changed |-> saved.current # current_table]]
               ELSE LET r == fetch_and_save_asset(data, history_table, current_table,
                                                  clock, t1, t2, store_ok)
                    IN  /\ history_table' = r.history
                        /\ current_table' = r.current
                        /\ clock' = r.clock
                        /\ fan' = [fan EXCEPT
                              !.order = Append(@, i),
                              !.tasks[i] =
                                  [pc |-> IF r.kind = "raised" THEN "raised" ELSE "done",
                                   data |-> data, kind |-> r.kind, asset |-> r.asset,
                                   appended |-> NewEntries(history_table, r.history),
                                   current_changed |-> r.current # current_table]]
       ELSE \E store_ok \in BOOLEAN : \E t2 \in Now(clock) :
               LET data == fan.tasks[i].data
               IN  /\ history_table' =
                          IF store_ok
                          THEN trim_asset_history(history_table, data.symbol, DefaultKeepLast)
                          ELSE history_table
                   /\ current_table' = current_table
                   /\ clock' = IF store_ok THEN t2 ELSE clock
                   /\ fan' = [fan EXCEPT
                         !.order = Append(@, i),
                         !.tasks[i].pc = IF store_ok THEN "done" ELSE "raised",
                         !.tasks[i].kind = IF store_ok THEN "asset" ELSE "raised",
                         !.tasks[i].asset =
                             IF store_ok THEN build_asset_with_metadata(data, t2) ELSE NoAsset]
    /\ UNCHANGED <<symbols_table, last, ing, reg, hash_seed>>

TasksEnded(f) == {i \in 1..Len(f.tasks) : f.tasks[i].pc \in {"done", "raised"}}

\* every task has returned: the gather returns the results and the call
\* runs to its return
FanReturn ==
    /\ fan.pc = "gathering"
    /\ \A i \in 1..Len(fan.tasks) : fan.tasks[i].pc = "done"
    /\ fan' = [fan EXCEPT
          !.pc = "done",
          !.ended_at_join = Cardinality(TasksEnded(fan)),
          !.ret = IF fan.op = "add_assets_service"
                  THEN assets_with_metadata(fan.symbols, GatherResults(fan))
                  ELSE <<>>]
    /\ UNCHANGED <<symbols_table, history_table, current_table, clock, last, ing, reg, hash_seed>>

\* a task has raised: the gather raises its exception, which neither
\* function catches
FanRaise ==
    /\ fan.pc = "gathering"
    /\ \E i \in 1..Len(fan.tasks) : fan.tasks[i].pc = "raised"
    /\ fan' = [fan EXCEPT !.pc = "raised",
                          !.ended_at_join = Cardinality(TasksEnded(fan))]
    /\ UNCHANGED <<symbols_table, history_table, current_table, clock, last, ing, reg, hash_seed>>

NextFan ==
    \/ FanStart
    \/ \E i \in 1..MaxFan : i <= Len(fan.symbols) /\ FanTaskFetched(i)
    \/ FanReturn
    \/ FanRaise

SpecFan == InitFan /\ [][NextFan]_vars

(***************************************************************************)
(* Claims about the store and the retention pass (specification Spec).     *)
(***************************************************************************)
CountSymbol(table, symbol) == Len(SearchSymbol(table, symbol))

OtherSymbols(table, symbol) ==
    SelectSeq(table, LAMBDA d : d.value.symbol # symbol)

TrimReturned == last.op = "trim_asset_history" /\ last.kind = "none"
SnapshotWritten == last.op = "fetch_and_save_asset" /\ last.kind = "asset"

\* C1: after trim_asset_history(s, K) returns, the number of history entries
\* of s is at most K, and if it was at most K before the call the history
\* table is unchanged.
C1_RetentionBound ==
    TrimReturned =>
        /\ CountSymbol(history_table, last.symbol) <= last.keep_last
        /\ CountSymbol(last.pre, last.symbol) <= last.keep_last
              => history_table = last.pre

\* C2: after fetch_and_save_asset(s) returns a record, s has at most 10
\* history entries, the history entries being those save_asset_metadata
\* inserted (their fields are symbol, timestamp and metadata only).
C2_AtMostTenAfterFetch ==
    /\ SnapshotWritten
    /\ \A i \in 1..Len(history_table) :
          DOMAIN history_table[i].value = {"symbol", "timestamp", "metadata"}
    => CountSymbol(history_table, last.symbol) <= DefaultKeepLast

\* C3: when s holds n entries with strictly increasing timestamps and K < n,
\* trim_asset_history(s, K) leaves exactly the K entries of s with the
\* greatest timestamps and removes no entry of another symbol.
C3_OldestFirstEviction ==
    LET entries == SearchSymbol(last.pre, last.symbol)
        n == Len(entries)
    IN  /\ TrimReturned
        /\ last.keep_last < n
        /\ \A i \in 1..(n - 1) :
              StrLess(entries[i].value.timestamp, entries[i + 1].value.timestamp)
        => /\ SearchSymbol(history_table, last.symbol)
                 = SubSeq(entries, n - last.keep_last + 1, n)
           /\ OtherSymbols(history_table, last.symbol)
                 = OtherSymbols(last.pre, last.symbol)

\* C5: after fetch_and_save_asset has written metrics m for s, the current
\* record of s carries m and get_asset_history(s, 1) is one entry whose
\* metadata is m (the clock never runs backwards in the model, and may
\* give the same reading twice).
C5_SnapshotVisible ==
    SnapshotWritten =>
        LET m == MetricsOfAsset(last.asset)
            cur == SearchSymbol(current_table, last.symbol)
            hist == get_asset_history(history_table, last.symbol, 1)
        IN  /\ Len(cur) = 1
            /\ MetricsOfAsset(cur[1].value) = m
            /\ Len(hist) = 1
            /\ hist[1].metadata = m

\* C13: trim_asset_history is idempotent: when trim_asset_history(s, K) is
\* called right after a trim_asset_history(s, K) that returned, the second
\* call removes nothing, so the history table is the one the first call left.
C13_TrimIdempotent ==
    TrimReturned /\ last.again => history_table = last.pre

\* trim_asset_history(s, K) has returned twice in a row for a symbol that
\* holds more than K entries
C13_Witness ==
    /\ TrimReturned
    /\ last.again
    /\ CountSymbol(last.pre, last.symbol) > last.keep_last

(***************************************************************************)
(* Claims about ingest_assets_service (specification SpecIngest).          *)
(***************************************************************************)
CountIn(list, x) == Cardinality({i \in 1..Len(list) : list[i] = x})

IngestDone == ing.pc = "done"

Positions == 1..Len(ing.outcomes)

\* the symbol a success message is about
SymbolOfMessage(message) == message[2]

\* C4: over a call of ingest_assets_service the number of history entries
\* appended for a symbol equals the number of fetches of that symbol that
\* returned data.
C4_OneEntryPerFetch ==
    IngestDone =>
        \A symbol \in IngestSymbols :
            CountIn(ing.appended, symbol) = CountIn(ing.fetched, symbol)

\* C7: when the call returns, updated_assets is the subsequence of the input
\* whose fetch_and_save_asset returned a record, in input order,
\* updated_count is its length, and a symbol whose fetch returned nothing
\* has its message in error_messages and, unless another occurrence of it
\* succeeded, appears neither in updated_assets nor in success_messages.
C7_PartialBatch ==
    IngestDone =>
        LET ok == {i \in Positions : ing.outcomes[i].kind = "asset"}
        IN  /\ ing.ret.updated_assets = SubseqAt(ing.update_symbols, ok)
            /\ ing.ret.updated_count = Cardinality(ok)
            /\ \A i \in Positions :
                  ing.outcomes[i].kind = "none" =>
                     /\ InList(<<"Could not fetch data for", ing.update_symbols[i]>>,
                               ing.ret.error_messages)
                     /\ (\A j \in ok : ing.update_symbols[j] # ing.update_symbols[i])
                           => /\ ~ InList(ing.update_symbols[i], ing.ret.updated_assets)
                              /\ \A k \in 1..Len(ing.ret.success_messages) :
                                    SymbolOfMessage(ing.ret.success_messages[k])
                                       # ing.update_symbols[i]

\* the call has returned for [valid1, invalid1, valid2], three different
\* symbols, where only the fetch of invalid1 returned nothing
C7_Witness ==
    /\ IngestDone
    /\ Len(ing.update_symbols) = 3
    /\ Cardinality({ing.update_symbols[i] : i \in 1..3}) = 3
    /\ [i \in 1..3 |-> ing.outcomes[i].kind] = <<"asset", "none", "asset">>
    /\ ing.ret.updated_count = 2

\* C8: when the fetch of a symbol succeeds and its registration fails, the
\* failure message is in error_messages and the symbol is not counted:
\* updated_assets and updated_count cover only the positions whose fetch
\* succeeded and whose registration did not fail.
C8_FailedRegistrationNotCounted ==
    IngestDone =>
        LET failed == {i \in Positions : ing.outcomes[i].registered = "failed"}
            counted == {i \in Positions : /\ ing.outcomes[i].kind = "asset"
                                          /\ ing.outcomes[i].registered # "failed"}
        IN  failed # {} =>
               /\ \A i \in failed :
                     \E k \in 1..Len(ing.ret.error_messages) :
                        SymbolOfMessage(ing.ret.error_messages[k]) = ing.update_symbols[i]
               /\ ing.ret.updated_assets = SubseqAt(ing.update_symbols, counted)
               /\ ing.ret.updated_count = Cardinality(counted)

\* C9: ingest_assets_service is never left by an exception; when it returns
\* every input position has been processed, each position whose processing
\* raised has its "Error processing" message and there is no such message
\* for any other position, and every position whose fetch succeeded had its
\* history entry written.
C9_ExceptionPerSymbol ==
    /\ ing.pc # "raised"
    /\ IngestDone =>
          /\ Len(ing.outcomes) = Len(ing.update_symbols)
          /\ \A symbol \in IngestSymbols :
                CountIn(ing.ret.error_messages, <<"Error processing", symbol>>)
                   = Cardinality({i \in Positions : /\ ing.outcomes[i].kind = "raised"
                                                    /\ ing.update_symbols[i] = symbol})
          /\ \A i \in Positions :
                ing.outcomes[i].kind = "asset" => InList(ing.update_symbols[i], ing.appended)

\* the call has returned although the processing of a symbol raised, and a
\* later symbol was fetched and written
C9_Witness ==
    /\ IngestDone
    /\ \E i, j \in Positions :
          /\ i < j
          /\ ing.outcomes[i].kind = "raised"
          /\ ing.outcomes[j].kind = "asset"
          /\ InList(ing.update_symbols[j], ing.ret.updated_assets)

\* C10: a symbol registered at an earlier position of the same call is seen
\* as tracked at a later position: the later occurrence is reported as
\* "Updated" and add_symbol_with_metadata is not called again for it.
C10_SeesEarlierRegistration ==
    IngestDone =>
        \A i, j \in Positions :
            /\ i < j
            /\ ing.update_symbols[i] = ing.update_symbols[j]
            /\ ing.outcomes[i].registered = "ok"
            /\ ing.outcomes[j].kind = "asset"
            => /\ ing.outcomes[j].registered = "none"
               /\ CountIn(ing.add_calls, ing.update_symbols[j]) = 1
               /\ InList(<<"Updated", ing.update_symbols[j]>>, ing.ret.success_messages)

(***************************************************************************)
(* Claims about concurrent registration (specification SpecRegister).      *)
(***************************************************************************)
\* C6: a registration call that has completed has lost none of the symbols
\* it found valid, whatever the other call did in between: a subsequent
\* get_symbols() contains them all.
C6_RegistryUnion ==
    \A t \in RegTasks :
        reg[t].pc = "done" =>
            \A symbol \in reg[t].registered :
                InList(symbol, get_symbols(symbols_table).ret)

\* both calls have completed, they registered disjoint new symbols, and one
\* of them resumed while the other was suspended in its existence check
C6_Witness ==
    /\ \A t \in RegTasks : reg[t].pc = "done" /\ reg[t].registered # {}
    /\ reg[1].registered \cap reg[2].registered = {}
    /\ \A t \in RegTasks : reg[t].registered \cap SetOf(default_symbols) = {}
    /\ \E t \in RegTasks : reg[t].overlapped
    /\ reg[1].kind # reg[2].kind

(***************************************************************************)
(* Claims about the calls that fan out (specification SpecFan).            *)
(***************************************************************************)
AddAssetsDone == fan.op = "add_assets_service" /\ fan.pc = "done"

FetchSucceeded(task) == task.data # EmptyData

\* C11: when add_assets_service(symbols) returns, the result has one record
\* per input symbol, in input order, whatever the order in which the tasks
\* ended: position i holds the metrics task i fetched for symbols[i] when
\* its fetch succeeded, and otherwise the placeholder of symbols[i], which
\* carries the symbol only.
C11_InputOrder ==
    AddAssetsDone =>
        /\ Len(fan.ret) = Len(fan.symbols)
        /\ \A i \in 1..Len(fan.symbols) :
              IF FetchSucceeded(fan.tasks[i])
              THEN /\ RequiredKeys \subseteq DOMAIN fan.ret[i]
                   /\ fan.ret[i].symbol = fan.symbols[i]
                   /\ MetricsOfAsset(fan.ret[i]) = MetricsOfAsset(fan.tasks[i].data)
              ELSE /\ DOMAIN fan.ret[i] = {"symbol"}
                   /\ fan.ret[i].symbol = fan.symbols[i]

\* add_assets_service([s1, s2, s3]) has returned, the fetch of s2 failed,
\* those of s1 and s3 succeeded with different metrics, and the tasks ended
\* in the reverse of the input order
C11_Witness ==
    /\ AddAssetsDone
    /\ Len(fan.symbols) = 3
    /\ fan.symbols[1] # fan.symbols[2]
    /\ fan.order = <<3, 2, 1>>
    /\ ~ FetchSucceeded(fan.tasks[2])
    /\ FetchSucceeded(fan.tasks[1]) /\ FetchSucceeded(fan.tasks[3])
    /\ MetricsOfAsset(fan.tasks[1].data) # MetricsOfAsset(fan.tasks[3].data)

UpdateCall == fan.op = "update_assets_and_trim_history"

\* the snapshot of the data a task fetched has been written: the task
\* inserted one history entry carrying the symbol and the metrics, the
\* entry is in the history table, and the symbol has a current record
SnapshotOfTask(symbol, task) ==
    /\ Len(task.appended) = 1
    /\ task.appended[1].value.symbol = symbol
    /\ task.appended[1].value.metadata = MetricsOfAsset(task.data)
    /\ InList(task.appended[1], history_table)
    /\ SearchSymbol(current_table, symbol) # <<>>

\* C12: update_assets_and_trim_history(symbols) is never left by an
\* exception of the processing of one symbol, and returns only after every
\* task has ended; when it returns, the snapshot of every symbol whose fetch
\* returned data has been written, and a task whose fetch returned nothing
\* has written no history entry and no current record.
C12_RefreshNeverRaises ==
    UpdateCall =>
        /\ fan.pc # "raised"
        /\ fan.pc = "done" =>
              /\ fan.ended_at_join = Len(fan.symbols)
              /\ \A i \in 1..Len(fan.symbols) :
                    IF FetchSucceeded(fan.tasks[i])
                    THEN SnapshotOfTask(fan.symbols[i], fan.tasks[i])
                    ELSE /\ fan.tasks[i].appended = <<>>
                         /\ ~ fan.tasks[i].current_changed

\* C14: the current table holds at most one record per symbol, whatever the
\* order of the writes: a symbol has a current record exactly when it has a
\* history entry, and that one record carries the metrics of the latest
\* write (the symbol's last history entry), which overwrote the earlier ones.
C14_OneCurrentPerSymbol ==
    \A symbol \in FanSymbols :
        LET cur == SearchSymbol(current_table, symbol)
            hist == SearchSymbol(history_table, symbol)
        IN  /\ Len(cur) <= 1
            /\ Len(cur) = 1 <=> hist # <<>>
            /\ Len(cur) = 1 =>
                  MetricsOfAsset(cur[1].value) = hist[Len(hist)].value.metadata

\* two tasks have written different metrics for one symbol, and the current
\* table holds the one record of that symbol
C14_Witness ==
    \E symbol \in FanSymbols :
        LET hist == SearchSymbol(history_table, symbol)
        IN  /\ Len(hist) = 2
            /\ hist[1].value.metadata # hist[2].value.metadata
            /\ Len(SearchSymbol(current_table, symbol)) = 1
            /\ Len(current_table) = 1

(***************************************************************************)
(* Claims about the tracked-symbol store (specification SpecSymbols).      *)
(***************************************************************************)
DefaultsDocument == [doc_id |-> 1, value |-> [symbols |-> default_symbols]]

\* C15: get_symbols() on an empty symbols store returns the three default
\* symbols and leaves them persisted as the one document of the store; a
\* get_symbols() that follows a get_symbols() returns the same set and does
\* not change the store, which holds exactly one document.
C15_DefaultSeeding ==
    last.op = "get_symbols" =>
        /\ last.pre = <<>> =>
              /\ last.ret = <<BTC_USD, ETH_USD, TSLA>>
              /\ last.post = <<DefaultsDocument>>
        /\ last.again =>
              /\ SetOf(last.ret) = SetOf(last.prev_ret)
              /\ last.post = last.pre
              /\ Len(last.post) = 1

\* get_symbols() has been called on the store that a get_symbols() on the
\* empty store had just seeded
C15_Witness ==
    /\ last.op = "get_symbols"
    /\ last.again
    /\ last.pre = <<DefaultsDocument>>
    /\ last.ret = default_symbols

SaveSymbolsDone(f) == f.kind = "save_symbols" /\ f.pc = "done"

\* the symbols a symbols table holds, as get_symbols() returns them
Tracked(table) == SetOf(get_symbols(table).ret)

\* C16: save_symbols(["AAPL", "bad", "GOOG"]) on a fresh store, where the
\* data source has data for AAPL and GOOG, returns and persists exactly the
\* set {AAPL, GOOG}.
C16_FreshRegistration ==
    \A t \in RegTasks :
        /\ SaveSymbolsDone(reg[t])
        /\ reg[t].symbols = <<AAPL, bad, GOOG>>
        /\ reg[t].valid_symbols = <<AAPL, GOOG>>
        /\ reg[t].store_at_start = <<>>
        => /\ SetOf(reg[t].ret) = {AAPL, GOOG}
           /\ Tracked(reg[t].store_at_return) = {AAPL, GOOG}

\* C17: when no symbol passed to save_symbols is both format-valid and
\* existence-valid, save_symbols returns the empty list and the symbols
\* table is as it was when the call started.
C17_NothingValid ==
    \A t \in RegTasks :
        SaveSymbolsDone(reg[t]) /\ reg[t].valid_symbols = <<>>
        => /\ reg[t].ret = <<>>
           /\ reg[t].store_at_return = reg[t].store_at_start

\* save_symbols has returned on a fresh store for symbols of which one
\* passed the format check and none the existence check
C17_Witness ==
    \E t \in RegTasks :
        /\ SaveSymbolsDone(reg[t])
        /\ reg[t].format_valid # <<>>
        /\ reg[t].valid_symbols = <<>>
        /\ reg[t].store_at_start = <<>>
        /\ InList(bad, reg[t].symbols)

(***************************************************************************)
(* Claims about the history and current tables (specifications SpecStore   *)
(* and SpecTrimAll).                                                       *)
(***************************************************************************)
SaveReturned == last.op = "save_asset_metadata" /\ last.kind = "none"

LacksField(metadata) == ~ (RequiredKeys \subseteq DOMAIN metadata)

\* C18: save_asset_metadata returns normally in every case, and when the
\* metadata lacks one of latest_price, change_percent_24h and
\* average_price_7d, the history table and the current table are as they
\* were before the call.
C18_SaveNeverRaises ==
    last.op = "save_asset_metadata" =>
        /\ last.kind = "none"
        /\ LacksField(last.metadata) =>
              /\ history_table = last.pre
              /\ current_table = last.pre_current

\* save_asset_metadata has returned for metadata that lacks a field, for a
\* symbol that has a current record
C18_Witness ==
    /\ SaveReturned
    /\ LacksField(last.metadata)
    /\ SearchSymbol(current_table, last.symbol) # <<>>

\* C19: trim_all_histories trims each symbol independently: whatever the
\* position at which the trim fails, the trim of every other position of
\* the list is performed.
C19_TrimsIsolated ==
    last.op = "trim_all_histories" =>
        last.performed = (1..Len(last.symbols)) \ last.faults

\* C20: get_asset_history(s, limit), limit >= 0, returns min(limit, n)
\* entries, n being the number of history entries of s (so at most limit,
\* and none when s has no history); all are entries of s, in non-increasing
\* order of timestamp, and they are the newest: fewer than k entries of s
\* are newer than the k-th entry returned.
C20_NewestFirst ==
    last.op = "get_asset_history" =>
        LET entries == SearchSymbol(last.pre, last.symbol)
            ret == last.ret
            n == Len(ret)
        IN  /\ n = Min(last.limit, Len(entries))
            /\ \A k \in 1..n :
                  /\ ret[k].symbol = last.symbol
                  /\ CountIn(ret, ret[k])
                        <= Cardinality({i \in 1..Len(entries) : entries[i].value = ret[k]})
                  /\ Cardinality({i \in 1..Len(entries) :
                        StrLess(ret[k].timestamp, entries[i].value.timestamp)}) < k
            /\ \A k \in 1..(n - 1) : ~ StrLess(ret[k].timestamp, ret[k + 1].timestamp)

\* get_asset_history(s, limit) has returned limit entries, two or more, of
\* a symbol that has more entries, one of them older than the first returned
C20_Witness ==
    /\ last.op = "get_asset_history"
    /\ Len(last.ret) = last.limit
    /\ last.limit >= 2
    /\ LET entries == SearchSymbol(last.pre, last.symbol)
       IN  /\ Len(entries) > last.limit
           /\ \E i \in 1..Len(entries) :
                 StrLess(entries[i].value.timestamp, last.ret[1].timestamp)

(***************************************************************************)
(* Claims on the full-store reset (specification SpecReset)                *)
(***************************************************************************)
\* C21: after truncate_db() the tracked-symbol store and the history table
\* are both empty, and the next get_symbols() returns exactly the three
\* default symbols and leaves them in the store as its one document
C21_ResetThenReseed ==
    /\ last.op = "truncate_db" =>
          symbols_table = <<>> /\ history_table = <<>>
    /\ (last.op = "get_symbols" /\ last.after_truncate) =>
          /\ last.pre = <<>>
          /\ last.ret = <<BTC_USD, ETH_USD, TSLA>>
          /\ last.post = <<DefaultsDocument>>
          /\ history_table = <<>>

\* a reset emptied a store that tracked AAPL and a history that held
\* entries, and the get_symbols that followed returned the defaults
C21_Witness ==
    /\ last.op = "get_symbols"
    /\ last.after_truncate
    /\ last.truncated # <<>>
    /\ InList(AAPL, last.truncated[1].value.symbols)
    /\ last.truncated_history # <<>>
    /\ last.ret = default_symbols
    /\ symbols_table = <<DefaultsDocument>>

(***************************************************************************)
(* Claim on the format check (specification SpecFormat)                    *)
(***************************************************************************)
\* the last four characters are "-USD"
HasUsdSuffix(s) ==
    /\ Len(s) >= 4
    /\ s[Len(s) - 3] = "-"
    /\ s[Len(s) - 2] = "U"
    /\ s[Len(s) - 1] = "S"
    /\ s[Len(s)] = "D"

\* all-uppercase: the string has a letter and each of its letters is an
\* uppercase one
AllUppercase(s) ==
    LET letters == {i \in 1..Len(s) : s[i] \in UpperChars \cup LowerChars}
    IN  letters # {} /\ \A i \in letters : s[i] \in UpperChars

\* C22: validate_symbol_format(s) is true iff the string s ends with "-USD"
\* or is all-uppercase; it is true for "BTC-USD" and "TSLA" and false for
\* "btc-usd" and "1234"
C22_FormatRule ==
    last.op = "validate_symbol_format" =>
        /\ last.ret <=> (HasUsdSuffix(last.symbol) \/ AllUppercase(last.symbol))
        /\ last.symbol \in {BTC_USD, TSLA} => last.ret
        /\ last.symbol \in {btc_usd, digits_1234} => ~ last.ret

\* the check has refused "1234", a string without any letter
C22_Witness ==
    /\ last.op = "validate_symbol_format"
    /\ last.symbol = digits_1234
    /\ ~ last.ret

(***************************************************************************)
(* Claim on the retention pass after each append (specification SpecIngest) *)
(***************************************************************************)
\* C23: whenever the orchestrator is suspended or has returned, each
\* save_asset_metadata call it made for a symbol (each history append) is
\* directly followed by a trim_asset_history call for that symbol
C23_TrimAfterEachAppend ==
    ing.pc \in {"fetching", "validating", "done", "raised"} =>
        \A k \in 1..Len(ing.store_calls) :
            ing.store_calls[k].call = "save_asset_metadata" =>
                /\ k < Len(ing.store_calls)
                /\ ing.store_calls[k + 1] =
                       [call |-> "trim_asset_history", symbol |-> ing.store_calls[k].symbol]

(***************************************************************************)
(* Claim on the two tables written by one save (specification SpecTrimAll) *)
(***************************************************************************)
\* the history table is the one before the call plus one entry of the symbol
HistoryAppended ==
    /\ Len(history_table) = Len(last.pre) + 1
    /\ Front(history_table) = last.pre
    /\ history_table[Len(history_table)].value.symbol = last.symbol

\* the symbol has a current record, and each one holds the metrics passed
\* and the timestamp of the entry appended
CurrentReflects ==
    LET records == SearchSymbol(current_table, last.symbol)
    IN  /\ records # <<>>
        /\ \A i \in 1..Len(records) :
              /\ MetricsOfAsset(records[i].value) = MetricsOfAsset(last.metadata)
              /\ records[i].value.last_updated =
                     history_table[Len(history_table)].value.timestamp

\* C24: after save_asset_metadata(s, m) returns, either a history entry for
\* s has been appended and the current record of s reflects m, or neither
\* table has changed, also when a store operation of the call fails
C24_BothOrNeither ==
    SaveReturned =>
        \/ HistoryAppended /\ CurrentReflects
        \/ history_table = last.pre /\ current_table = last.pre_current

(***************************************************************************)
(* Claim on the current records after a reset (specification SpecReset)    *)
(***************************************************************************)
\* C25: after truncate_db() returns no current record is left: the table
\* 'current' is empty, the get_assets_with_metadata() that follows returns
\* the empty list, and no symbol has a current record without history
C25_ResetClearsCurrent ==
    /\ last.op = "truncate_db" =>
          /\ get_assets_with_metadata(current_table) = <<>>
          /\ \A i \in 1..Len(current_table) :
                SearchSymbol(history_table, current_table[i].value.symbol) # <<>>
    /\ (last.op = "get_assets_with_metadata" /\ last.after_truncate) =>
          last.ret = <<>>

(***************************************************************************)
(* Claim on the symbols store (specification SpecRegistry)                 *)
(***************************************************************************)
NoDuplicate(list) ==
    \A i, j \in 1..Len(list) : list[i] = list[j] => i = j

\* C26: in every reachable state, whatever the interleaving of get_symbols,
\* save_symbols, add_symbol_with_metadata and truncate_db, the symbols
\* table holds at most one document and its list names no symbol twice
C26_OneDocumentNoDuplicate ==
    /\ Len(symbols_table) <= 1
    /\ \A i \in 1..Len(symbols_table) : NoDuplicate(symbols_table[i].value.symbols)

\* save_symbols was given AAPL twice and overlapped with another call that
\* registered a symbol too, a reset and a get_symbols having run in between:
\* the store holds one document that names AAPL
C26_Witness ==
    /\ \E t \in RegTasks :
          /\ reg[t].kind = "save_symbols"
          /\ reg[t].pc = "done"
          /\ reg[t].symbols = <<AAPL, AAPL>>
          /\ reg[t].valid_symbols = <<AAPL, AAPL>>
          /\ reg[t].overlapped
          /\ \E u \in RegTasks \ {t} : reg[u].registered # {}
    /\ last.op = "get_symbols"
    /\ last.after_truncate
    /\ Len(symbols_table) = 1
    /\ InList(AAPL, symbols_table[1].value.symbols)

(***************************************************************************)
(* Claim on the write-then-trim step of concurrent tasks (SpecFan)         *)
(***************************************************************************)
\* C27: under every interleaving of the fetch_and_save_asset tasks, whenever
\* a task is suspended or has ended, and so whenever another task can write
\* to the store, each task that has appended its history entry has also
\* made its trim_asset_history call (which returned or raised); a task that
\* has not ended is suspended in its fetch, never between save and trim
C27_WriteThenTrimAtomic ==
    fan.pc \notin {"idle", "start"} =>
        \A i \in 1..Len(fan.tasks) :
            /\ fan.tasks[i].pc \in {"fetching", "done", "raised"}
            /\ fan.tasks[i].pc = "fetching" =>
                  fan.tasks[i].appended = <<>> /\ ~ fan.tasks[i].current_changed
            /\ fan.tasks[i].appended # <<>> => fan.tasks[i].kind \in {"asset", "raised"}

\* two tasks of the same symbol have both saved and trimmed, the second of
\* the input first, while a third task is still suspended in its fetch
C27_Witness ==
    /\ fan.pc = "gathering"
    /\ Len(fan.symbols) = 3
    /\ fan.symbols[1] = fan.symbols[2]
    /\ fan.order = <<2, 1>>
    /\ fan.tasks[3].pc = "fetching"
    /\ fan.tasks[1].kind = "asset"
    /\ fan.tasks[2].kind = "asset"
    /\ Len(fan.tasks[1].appended) = 1
    /\ Len(fan.tasks[2].appended) = 1
    /\ Len(SearchSymbol(history_table, fan.symbols[1])) = 2
====
